---- MODULE Spec2Model ----
(***************************************************************************)
(* A model of presentai.py: the slide assembly of generate_presentation    *)
(* (text partitioning, label pairing, line classification), the tool       *)
(* generate_content with its one handled error path, and the shared log    *)
(* queue terminal_output with the /stream generator that drains it.        *)
(*                                                                         *)
(* Text is a sequence of characters.  A character is a one-element string; *)
(* a literal of the program that holds no line break, no marker and no     *)
(* white space at either end is carried as one multi-letter character.     *)
(***************************************************************************)
EXTENDS Integers, Sequences, FiniteSets, TLC

\* ------------------------------------------------------------ bounds
\* Longest content-source output enumerated character by character.
MaxLen == 4
\* Most candidates of the enumerated long outputs (more than the 10 labels).
MaxCands == 12
\* Most tool calls the agent pipeline makes inside one crew.kickoff.
MaxToolCalls == 1

\* -------------------------------------------------------- characters
NL == "\n"
SP == " "
BULLET == "U+2022"
HYPHEN == "-"
CHART == "U+1F4CA"
Alphabet == {"a", SP, NL, BULLET, HYPHEN}
\* str.strip() with no argument strips white space, line breaks included.
Whitespace == {SP, NL}

\* ---------------------------------------------------- str operations
\* Least index at which sep occurs in s, 0 when it does not (str.find + 1).
Find(s, sep) ==
    LET hits == {k \in 1..(Len(s) - Len(sep) + 1) :
                    SubSeq(s, k, k + Len(sep) - 1) = sep}
    IN  IF hits = {} THEN 0 ELSE CHOOSE k \in hits : \A j \in hits : k <= j

RECURSIVE SplitDropEmpty(_, _)
\* A split that drops empty segments, as str.split() without a separator does.
SplitDropEmpty(s, sep) ==
    LET k == Find(s, sep)
    IN  IF k = 0 THEN (IF s = <<>> THEN <<>> ELSE <<s>>)
        ELSE (IF k = 1 THEN <<>> ELSE <<SubSeq(s, 1, k - 1)>>)
             \o SplitDropEmpty(SubSeq(s, k + Len(sep), Len(s)), sep)

RECURSIVE StrSplit(_, _)
\* str.split(sep): cut at each occurrence of sep, scanning left to right,
\* occurrences not overlapping; empty segments are kept.
StrSplit(s, sep) ==
    LET k == Find(s, sep)
    IN  IF k = 0 THEN <<s>>
        ELSE <<SubSeq(s, 1, k - 1)>>
             \o StrSplit(SubSeq(s, k + Len(sep), Len(s)), sep)

RECURSIVE StrJoin(_, _)
\* sep.join(parts)
StrJoin(parts, sep) ==
    IF parts = <<>> THEN <<>>
    ELSE IF Len(parts) = 1 THEN parts[1]
    ELSE parts[1] \o sep \o StrJoin(Tail(parts), sep)

RECURSIVE LStrip(_)
LStrip(s) ==
    IF s # <<>> /\ s[1] \in Whitespace THEN LStrip(Tail(s)) ELSE s

RECURSIVE RStrip(_)
RStrip(s) ==
    IF s # <<>> /\ s[Len(s)] \in Whitespace
    THEN RStrip(SubSeq(s, 1, Len(s) - 1)) ELSE s

\* str.strip()
Strip(s) == RStrip(LStrip(s))

\* str.startswith(c) for a one-character prefix
StartsWith(s, c) == s # <<>> /\ s[1] = c

\* ------------------------------------------------------ the program's text
slide_types ==
    << <<"Introduction">>, <<"Agenda Overview">>, <<"Key Point 1">>,
       <<"Key Point 2">>, <<"Key Point 3">>, <<"Supporting Data">>,
       <<"Case Study">>, <<"Conclusion">>, <<"Next Steps">>, <<"Q&A">> >>

Subtitle == <<"An AI-Generated Presentation">>
\* f"<chart>  {agenda}"
TitleText(agenda) == <<CHART, SP>> \o agenda

\* The log lines, each an f-string or a literal of the source.
MsgGenerating(agenda) == <<"Generating presentation for agenda:", SP>> \o agenda
MsgTitle == <<"Creating title slide">>
MsgContent(title) == <<"Creating content slide:", SP>> \o title
MsgSuccess == <<"Presentation generated successfully">>
MsgScraping(url) == <<"Scraping website:", SP>> \o url
MsgSearching(query) == <<"Searching for:", SP>> \o query
MsgOpenAI == <<"Generating content with OpenAI">>
\* The exception's text alone.
ErrorMessageBare(e) == e

\* f"Error generating content: {str(e)}"
ErrorMessage(e) == <<"Error generating content:", SP>> \o e
\* f"data: {message}\n\n"
Event(message) == <<"data:", SP>> \o message \o <<NL, NL>>

\* ------------------------------------------------- create_content_slide
\* The level the if/elif/else gives a line: line.startswith reads the line as
\* split, not the stripped text.
LineLevel(line) ==
    IF StartsWith(line, BULLET) THEN 1
    ELSE IF StartsWith(line, HYPHEN) THEN 2
    ELSE 0

\* The stripped line without its leading marker.
ParagraphTextNoMarker(line) ==
    IF StartsWith(Strip(line), BULLET) \/ StartsWith(Strip(line), HYPHEN)
    THEN Strip(Tail(Strip(line))) ELSE Strip(line)

\* p.text = line.strip()
ParagraphText(line) == Strip(line)

\* p.font.bold = True in the else branch only
ParagraphBold(level) == level = 0

\* One pass of the loop body: the paragraph tf.add_paragraph() returns,
\* with its text, level and bold set.
AddParagraph(line) ==
    [text |-> ParagraphText(line),
     level |-> LineLevel(line),
     bold |-> ParagraphBold(LineLevel(line))]

\* tf.clear() leaves the text frame with one empty paragraph.
ClearedFrame == << [text |-> <<>>, level |-> 0, bold |-> FALSE] >>

RECURSIVE AddParagraphs(_)
AddParagraphs(lines) ==
    IF lines = <<>> THEN <<>>
    ELSE <<AddParagraph(lines[1])>> \o AddParagraphs(Tail(lines))

\* The slide create_content_slide adds: layout 1, the title, and the body's
\* text frame after tf.clear() and one add_paragraph per line.
ContentSlide(title, content) ==
    [layout |-> 1,
     title |-> title,
     body |-> ClearedFrame \o AddParagraphs(StrSplit(content, <<NL>>))]

\* A title slide made from the wrong layout.
TitleSlideLayout1(title, subtitle) ==
    [layout |-> 1,
     title |-> title,
     body |-> << [text |-> subtitle, level |-> 0, bold |-> FALSE] >>]

\* The slide create_title_slide adds: layout 0, the title, the subtitle as
\* the one paragraph of placeholder 1.
TitleSlide(title, subtitle) ==
    [layout |-> 0,
     title |-> title,
     body |-> << [text |-> subtitle, level |-> 0, bold |-> FALSE] >>]

\* ------------------------------------------------------------- inputs
Reqs == {1, 2}
Viewers == {1, 2}
\* The agenda of each request.
Topic(r) == IF r = 1 THEN <<"a">> ELSE <<"x">>
\* Exception texts str(e) of a failed chat-completion call.
Errors == {<<"e">>, <<"e", NL, NL, "e">>}
\* Texts the chat-completion call returns.
LlmTexts == {<<SP, "a", NL>>}
Urls == {<<"u">>}
Queries == {<<"q">>}

RECURSIVE Numbered(_)
\* n paragraphs "a1", "a2", ..., each apart from the next by a blank line.
Numbered(n) ==
    IF n = 1 THEN <<"a", ToString(1)>>
    ELSE Numbered(n - 1) \o <<NL, NL, "a", ToString(n)>>

\* The example of the specification's end-to-end scenario.
Example ==
    <<"Solar power is growing fast.", NL, NL,
      BULLET, SP, "Wind farms expand", NL, HYPHEN, SP, "offshore costs drop">>

\* What crew.kickoff may return when no tool output is passed through.
Contents ==
    UNION {[1..n -> Alphabet] : n \in 0..MaxLen}
    \cup {Numbered(n) : n \in 1..MaxCands}
    \cup {Example}
\* The few outputs the concurrent specifications draw from.
FewContents == {<<"a">>, <<"a", NL, NL, BULLET, "a">>}

\* -------------------------------------------------------------- state
VARIABLES
    pc,               \* each request thread's position in generate_presentation
    agenda,           \* request.form['agenda']
    toolCalls,        \* tool calls made inside this request's crew.kickoff
    toolReturns,      \* what generate_content returned, call by call
    result,           \* crew.kickoff's return value
    slides_content,   \* result.split("\n\n")
    i,                \* the loop's index
    prs,              \* prs.slides
    terminal_output,  \* the queue.Queue, oldest first
    enqueued,         \* every line ever put, in put order (history)
    vpc,              \* each /stream generator's position
    connected,        \* whether the generator's client is still there
    message,          \* the generator's local 'message'
    emitted,          \* the events each generator has yielded to its client
    backlog           \* the lines already put when the viewer's request came (history)

vars == <<pc, agenda, toolCalls, toolReturns, result, slides_content, i, prs,
          terminal_output, enqueued, vpc, connected, message, emitted, backlog>>
reqVars == <<pc, agenda, toolCalls, toolReturns, result, slides_content, i, prs>>
viewVars == <<vpc, connected, message, emitted, backlog>>

\* terminal_output.put(line) by request r.  'by' and 'n' are history: the
\* request that put the line and the line's place in put order.
Put(r, line) ==
    LET item == [msg |-> line, by |-> r, n |-> Len(enqueued) + 1]
    IN  /\ terminal_output' = Append(terminal_output, item)
        /\ enqueued' = Append(enqueued, item)

Init ==
    /\ pc = [r \in Reqs |-> "idle"]
    /\ agenda = [r \in Reqs |-> <<>>]
    /\ toolCalls = [r \in Reqs |-> 0]
    /\ toolReturns = [r \in Reqs |-> <<>>]
    /\ result = [r \in Reqs |-> <<>>]
    /\ slides_content = [r \in Reqs |-> <<>>]
    /\ i = [r \in Reqs |-> 0]
    /\ prs = [r \in Reqs |-> <<>>]
    /\ terminal_output = <<>>
    /\ enqueued = <<>>
    /\ vpc = [v \in Viewers |-> "idle"]
    /\ connected = [v \in Viewers |-> FALSE]
    /\ message = [v \in Viewers |-> <<>>]
    /\ emitted = [v \in Viewers |-> <<>>]
    /\ backlog = [v \in Viewers |-> 0]

\* ------------------------------------------------ generate_presentation
\* POST /generate: generate() reads the form field and generate_presentation
\* logs its first line and makes the empty presentation.
Generate(r, a) ==
    /\ pc[r] = "idle"
    /\ agenda' = [agenda EXCEPT ![r] = a]
    /\ Put(r, MsgGenerating(a))
    /\ prs' = [prs EXCEPT ![r] = <<>>]
    /\ pc' = [pc EXCEPT ![r] = "kickoff"]
    /\ UNCHANGED <<toolCalls, toolReturns, result, slides_content, i, viewVars>>

\* Inside crew.kickoff the researcher may call scrape_website.
ScrapeWebsite(r, url) ==
    /\ pc[r] = "kickoff"
    /\ toolCalls[r] < MaxToolCalls
    /\ toolCalls' = [toolCalls EXCEPT ![r] = @ + 1]
    /\ Put(r, MsgScraping(url))
    /\ UNCHANGED <<pc, agenda, toolReturns, result, slides_content, i, prs, viewVars>>

\* Inside crew.kickoff the researcher may call basic_web_search.
BasicWebSearch(r, query) ==
    /\ pc[r] = "kickoff"
    /\ toolCalls[r] < MaxToolCalls
    /\ toolCalls' = [toolCalls EXCEPT ![r] = @ + 1]
    /\ Put(r, MsgSearching(query))
    /\ UNCHANGED <<pc, agenda, toolReturns, result, slides_content, i, prs, viewVars>>

\* Inside crew.kickoff the content creator may call generate_content: the
\* first put, up to the chat-completion call.
GenerateContentCall(r) ==
    /\ pc[r] = "kickoff"
    /\ toolCalls[r] < MaxToolCalls
    /\ toolCalls' = [toolCalls EXCEPT ![r] = @ + 1]
    /\ Put(r, MsgOpenAI)
    /\ pc' = [pc EXCEPT ![r] = "llm"]
    /\ UNCHANGED <<agenda, toolReturns, result, slides_content, i, prs, viewVars>>

\* The chat-completion call returns: generate_content returns its text, stripped.
GenerateContentReturn(r, text) ==
    /\ pc[r] = "llm"
    /\ toolReturns' = [toolReturns EXCEPT ![r] =
           Append(@, [failed |-> FALSE, e |-> <<>>, out |-> Strip(text)])]
    /\ pc' = [pc EXCEPT ![r] = "kickoff"]
    /\ UNCHANGED <<agenda, toolCalls, result, slides_content, i, prs,
                   terminal_output, enqueued, viewVars>>


\* The chat-completion call raises: the except branch formats the error,
\* puts it on the queue and returns it to the agent as the tool's output.
GenerateContentExcept(r, e) ==
    /\ pc[r] = "llm"
    /\ Put(r, ErrorMessage(e))
    /\ toolReturns' = [toolReturns EXCEPT ![r] =
           Append(@, [failed |-> TRUE, e |-> e, out |-> ErrorMessage(e)])]
    /\ pc' = [pc EXCEPT ![r] = "kickoff"]
    /\ UNCHANGED <<agenda, toolCalls, result, slides_content, i, prs, viewVars>>

\* The outputs generate_content has returned inside request r's kickoff.
ToolOutputs(r) == {toolReturns[r][k].out : k \in 1..Len(toolReturns[r])}

\* crew.kickoff returns its text: a text of 'contents', or a tool's output
\* that the agents pass through.
KickoffReturn(r, contents) ==
    /\ pc[r] = "kickoff"
    /\ \E text \in contents \cup ToolOutputs(r) :
           result' = [result EXCEPT ![r] = text]
    /\ pc' = [pc EXCEPT ![r] = "title"]
    /\ UNCHANGED <<agenda, toolCalls, toolReturns, slides_content, i, prs,
                   terminal_output, enqueued, viewVars>>

\* crew.kickoff raises: nothing in generate_presentation or generate catches it.
KickoffRaise(r) ==
    /\ pc[r] = "kickoff"
    /\ pc' = [pc EXCEPT ![r] = "raised"]
    /\ UNCHANGED <<agenda, toolCalls, toolReturns, result, slides_content, i, prs,
                   terminal_output, enqueued, viewVars>>

\* create_title_slide(prs, f"<chart>  {agenda}", "An AI-Generated Presentation")
CreateTitleSlide(r) ==
    /\ pc[r] = "title"
    /\ Put(r, MsgTitle)
    /\ prs' = [prs EXCEPT ![r] = Append(@, TitleSlide(TitleText(agenda[r]), Subtitle))]
    /\ pc' = [pc EXCEPT ![r] = "split"]
    /\ UNCHANGED <<agenda, toolCalls, toolReturns, result, slides_content, i, viewVars>>

\* slides_content = result.split("\n\n"), and the loop's start
SplitResult(r) ==
    /\ pc[r] = "split"
    /\ slides_content' = [slides_content EXCEPT ![r] = StrSplit(result[r], <<NL, NL>>)]
    /\ i' = [i EXCEPT ![r] = 0]
    /\ pc' = [pc EXCEPT ![r] = "loop"]
    /\ UNCHANGED <<agenda, toolCalls, toolReturns, result, prs,
                   terminal_output, enqueued, viewVars>>

\* The label a loop pass takes for index k (0-based): slide_types[k].
SlideType(k) == slide_types[k + 1]

\* The loop's test: if i < len(slide_types)
\* The test off by one: the last label is never used.
HasSlideTypeShort(k) == k + 1 < Len(slide_types)

HasSlideType(k) == k < Len(slide_types)

\* One pass of 'for i, content in enumerate(slides_content)': a content slide
\* is created when a label is left, and nothing is done otherwise.
ForContent(r) ==
    /\ pc[r] = "loop"
    /\ i[r] < Len(slides_content[r])
    /\ IF HasSlideType(i[r])
       THEN /\ Put(r, MsgContent(SlideType(i[r])))
            /\ prs' = [prs EXCEPT ![r] =
                   Append(@, ContentSlide(SlideType(i[r]), slides_content[r][i[r] + 1]))]
       ELSE UNCHANGED <<prs, terminal_output, enqueued>>
    /\ i' = [i EXCEPT ![r] = @ + 1]
    /\ UNCHANGED <<pc, agenda, toolCalls, toolReturns, result, slides_content, viewVars>>

\* The loop is over; prs.save(output) and output.seek(0) succeed.
Save(r) ==
    /\ pc[r] = "loop"
    /\ i[r] = Len(slides_content[r])
    /\ pc' = [pc EXCEPT ![r] = "saved"]
    /\ UNCHANGED <<agenda, toolCalls, toolReturns, result, slides_content, i, prs,
                   terminal_output, enqueued, viewVars>>

\* The success line put before prs.save, which then raises.
SaveRaiseAfterPut(r) ==
    /\ pc[r] = "loop"
    /\ i[r] = Len(slides_content[r])
    /\ Put(r, MsgSuccess)
    /\ pc' = [pc EXCEPT ![r] = "raised"]
    /\ UNCHANGED <<agenda, toolCalls, toolReturns, result, slides_content, i, prs, viewVars>>

\* The loop is over; prs.save(output) raises.
SaveRaise(r) ==
    /\ pc[r] = "loop"
    /\ i[r] = Len(slides_content[r])
    /\ pc' = [pc EXCEPT ![r] = "raised"]
    /\ UNCHANGED <<agenda, toolCalls, toolReturns, result, slides_content, i, prs,
                   terminal_output, enqueued, viewVars>>

\* terminal_output.put("Presentation generated successfully"); return output
PutSuccess(r) ==
    /\ pc[r] = "saved"
    /\ Put(r, MsgSuccess)
    /\ pc' = [pc EXCEPT ![r] = "done"]
    /\ UNCHANGED <<agenda, toolCalls, toolReturns, result, slides_content, i, prs, viewVars>>

\* ------------------------------------------------------------- /stream
\* GET /stream: the response starts iterating generate().
Stream(v) ==
    /\ vpc[v] = "idle"
    /\ vpc' = [vpc EXCEPT ![v] = "get"]
    /\ connected' = [connected EXCEPT ![v] = TRUE]
    /\ backlog' = [backlog EXCEPT ![v] = Len(enqueued)]
    /\ UNCHANGED <<reqVars, terminal_output, enqueued, message, emitted>>

\* The newest item, as a LifoQueue would give.
QueueLast(q) == q[Len(q)]

\* The item terminal_output.get() takes: the oldest.
QueueHead(q) == q[1]

\* A get that leaves the item on the queue.
QueueKeep(q) == q

\* The queue after terminal_output.get().
QueueRest(q) == Tail(q)

\* message = terminal_output.get(): blocks while the queue is empty.
StreamGet(v) ==
    /\ vpc[v] = "get"
    /\ terminal_output # <<>>
    /\ message' = [message EXCEPT ![v] = QueueHead(terminal_output)]
    /\ terminal_output' = QueueRest(terminal_output)
    /\ vpc' = [vpc EXCEPT ![v] = "yield"]
    /\ UNCHANGED <<reqVars, enqueued, connected, emitted, backlog>>

\* A generator without the 'while True': it ends after its first event.
StreamYieldOnce(v) ==
    /\ vpc[v] = "yield"
    /\ connected[v]
    /\ emitted' = [emitted EXCEPT ![v] =
           Append(@, [data |-> Event(message[v].msg), n |-> message[v].n])]
    /\ vpc' = [vpc EXCEPT ![v] = "closed"]
    /\ UNCHANGED <<reqVars, terminal_output, enqueued, connected, message, backlog>>

\* yield f"data: {message}\n\n", the client still there: the event is sent
\* and the loop goes round.
StreamYield(v) ==
    /\ vpc[v] = "yield"
    /\ connected[v]
    /\ emitted' = [emitted EXCEPT ![v] =
           Append(@, [data |-> Event(message[v].msg), n |-> message[v].n])]
    /\ vpc' = [vpc EXCEPT ![v] = "get"]
    /\ UNCHANGED <<reqVars, terminal_output, enqueued, connected, message, backlog>>

\* The client goes away.  The generator is not told until it next yields.
Disconnect(v) ==
    /\ vpc[v] \in {"get", "yield"}
    /\ connected[v]
    /\ connected' = [connected EXCEPT ![v] = FALSE]
    /\ UNCHANGED <<reqVars, terminal_output, enqueued, vpc, message, emitted, backlog>>

\* yield with the client gone: the write fails and the generator is closed.
StreamClose(v) ==
    /\ vpc[v] = "yield"
    /\ ~connected[v]
    /\ vpc' = [vpc EXCEPT ![v] = "closed"]
    /\ UNCHANGED <<reqVars, terminal_output, enqueued, connected, message, emitted, backlog>>

\* ------------------------------------------------------ specifications
\* One step of the agent pipeline inside request r's crew.kickoff: a tool call.
ToolStep(r) ==
    \/ \E url \in Urls : ScrapeWebsite(r, url)
    \/ \E query \in Queries : BasicWebSearch(r, query)
    \/ GenerateContentCall(r)
    \/ \E text \in LlmTexts : GenerateContentReturn(r, text)
    \/ \E e \in Errors : GenerateContentExcept(r, e)

\* One step of request thread r in generate_presentation itself, crew.kickoff
\* returning a text of 'contents' or a tool's output.
AssembleStep(r, contents) ==
    \/ \E a \in {Topic(r)} : Generate(r, a)
    \/ KickoffReturn(r, contents)
    \/ KickoffRaise(r)
    \/ CreateTitleSlide(r)
    \/ SplitResult(r)
    \/ ForContent(r)
    \/ Save(r)
    \/ SaveRaise(r)
    \/ PutSuccess(r)

\* One step of the /stream generator v or of its client.
ViewerStep(v) ==
    \/ Stream(v)
    \/ StreamGet(v)
    \/ StreamYield(v)
    \/ Disconnect(v)
    \/ StreamClose(v)

\* One request, every content-source output of Contents.
Next ==
    \/ ToolStep(1)
    \/ AssembleStep(1, Contents)
Spec == Init /\ [][Next]_vars

\* Two concurrent requests; the agents of request 1 call tools.  Nobody views.
ConcNext ==
    \/ ToolStep(1)
    \/ AssembleStep(1, FewContents)
    \/ AssembleStep(2, {<<"a">>})
ConcSpec == Init /\ [][ConcNext]_vars

\* Two concurrent requests and one /stream viewer, whose client may go away.
StreamNext ==
    \/ \E r \in Reqs : AssembleStep(r, {<<"a">>})
    \/ ViewerStep(1)
StreamSpec == Init /\ [][StreamNext]_vars

\* The same under the scheduling of the generator's thread: a get that can
\* return does, and a yield that can be taken is.
StreamLive ==
    StreamSpec /\ WF_vars(StreamGet(1)) /\ WF_vars(StreamYield(1))
               /\ WF_vars(StreamClose(1))

\* One request and two /stream viewers, whose clients may go away.
MultiNext ==
    \/ AssembleStep(1, FewContents)
    \/ \E v \in Viewers : ViewerStep(v)
MultiSpec == Init /\ [][MultiNext]_vars

\* -------------------------------------------------------------- claims
Min(a, b) == IF a <= b THEN a ELSE b
DELIM == <<NL, NL>>
\* The positions a request thread is at once its loop is over.
LoopDone == {"saved", "done"}
\* The positions at which the title slide has been added.
AfterTitle == {"split", "loop", "saved", "done"}
\* The positions at which result.split has run.
AfterSplit == {"loop", "saved", "done"}
\* The paragraphs the loop of create_content_slide added to a slide's body.
BodyLines(slide) == Tail(slide.body)

\* C1: a content-source output of n candidates gives exactly min(n, 10)
\* content slides after the title slide; the k-th carries the k-th label of
\* the fixed list and the k-th candidate; candidates past the 10th are
\* dropped and the request still finishes.  While the loop runs, i passes
\* have produced min(i, 10) content slides.
C1_LabelPairing ==
    \A r \in Reqs :
        LET cands == StrSplit(result[r], DELIM)
            m == Min(Len(cands), 10)
        IN  /\ pc[r] \in AfterSplit =>
                /\ Len(prs[r]) = 1 + Min(i[r], 10)
                /\ \A k \in 2..Len(prs[r]) :
                       /\ prs[r][k].title = slide_types[k - 1]
                       /\ prs[r][k] = ContentSlide(slide_types[k - 1], cands[k - 1])
            /\ pc[r] \in LoopDone =>
                /\ Len(prs[r]) = 1 + m
                /\ \A k \in 1..m : prs[r][k + 1].title = slide_types[k]
                /\ m >= 1 => prs[r][2].title = <<"Introduction">>
                /\ m = 10 => prs[r][11].title = <<"Q&A">>

\* Twelve candidates: ten content slides, the request done.
C1_Witness ==
    /\ pc[1] = "done"
    /\ Len(slides_content[1]) = 12
    /\ Len(prs[1]) = 11
    /\ prs[1][11].title = <<"Q&A">>
    /\ BodyLines(prs[1][11])[1].text = <<"a", "10">>

\* C2: the deck is empty until create_title_slide has run and from then on
\* begins with the one title slide (title = glyph, space, topic; subtitle
\* "An AI-Generated Presentation"); every other slide is a content slide
\* after it.
C2_TitleFirst ==
    \A r \in Reqs :
        /\ pc[r] \in AfterTitle => prs[r] # <<>>
        /\ prs[r] # <<>> =>
            /\ prs[r][1].layout = 0
            /\ prs[r][1].title = <<CHART, SP>> \o agenda[r]
            /\ Len(prs[r][1].body) = 1
            /\ prs[r][1].body[1].text = <<"An AI-Generated Presentation">>
            /\ \A k \in 2..Len(prs[r]) : prs[r][k].layout = 1

\* A finished deck of a title slide and three content slides.
C2_Witness ==
    /\ pc[1] = "done"
    /\ Len(prs[1]) = 4
    /\ prs[1][1].layout = 0
    /\ prs[1][4].layout = 1

\* Line breaks directly before position k of s.
RECURSIVE BreaksBefore(_, _)
BreaksBefore(s, k) ==
    IF k > 1 /\ s[k - 1] = NL THEN 1 + BreaksBefore(s, k - 1) ELSE 0
\* The positions at which a delimiter of s starts: a pair of line breaks an
\* even number of line breaks into its run.
DelimStarts(s) ==
    {k \in 1..(Len(s) - 1) :
        s[k] = NL /\ s[k + 1] = NL /\ BreaksBefore(s, k) % 2 = 0}

\* C3: result.split("\n\n") gives one candidate more than the output has
\* delimiters, in order, none holding a delimiter; joining them with the
\* delimiter gives the output back; an output without delimiter is its own
\* one candidate, and the empty output gives one empty candidate.
C3_SplitJoin ==
    \A r \in Reqs :
        pc[r] \in AfterSplit =>
            /\ Len(slides_content[r]) = Cardinality(DelimStarts(result[r])) + 1
            /\ StrJoin(slides_content[r], DELIM) = result[r]
            /\ \A k \in 1..Len(slides_content[r]) :
                   DelimStarts(slides_content[r][k]) = {}
            /\ DelimStarts(result[r]) = {} => slides_content[r] = <<result[r]>>
            /\ result[r] = <<>> => slides_content[r] = << <<>> >>

\* Three line breaks: an empty candidate, then one that is a line break.
C3_Witness ==
    /\ pc[1] = "loop"
    /\ result[1] = <<NL, NL, NL>>
    /\ slides_content[1] = << <<>>, <<NL>> >>

\* The level of a text by its first character.
LevelOf(text) ==
    IF text # <<>> /\ text[1] = BULLET THEN 1
    ELSE IF text # <<>> /\ text[1] = HYPHEN THEN 2
    ELSE 0

\* C4: every body line is given its level by its first character after
\* white space is trimmed (bullet 1, hyphen 2, else 0), and is bold exactly
\* when its level is 0.
C4_LevelAfterTrim ==
    \A r \in Reqs :
        \A k \in 2..Len(prs[r]) :
            LET lines == StrSplit(StrSplit(result[r], DELIM)[k - 1], <<NL>>)
            IN  \A j \in 1..Len(lines) :
                    /\ BodyLines(prs[r][k])[j].level = LevelOf(Strip(lines[j]))
                    /\ BodyLines(prs[r][k])[j].bold
                           = (BodyLines(prs[r][k])[j].level = 0)

\* C5 as stated: the text of every body line is the candidate's line as it
\* is, and the body has the candidate's lines in number and order.
C5_TextUnaltered ==
    \A r \in Reqs :
        \A k \in 2..Len(prs[r]) :
            LET lines == StrSplit(StrSplit(result[r], DELIM)[k - 1], <<NL>>)
            IN  /\ Len(BodyLines(prs[r][k])) = Len(lines)
                /\ \A j \in 1..Len(lines) :
                       BodyLines(prs[r][k])[j].text = lines[j]

\* s without the white space at its two ends, by positions.
Trimmed(s) ==
    LET inked == {k \in 1..Len(s) : s[k] \notin {SP, NL}}
    IN  IF inked = {} THEN <<>>
        ELSE SubSeq(s, CHOOSE k \in inked : \A j \in inked : k <= j,
                       CHOOSE k \in inked : \A j \in inked : k >= j)

\* C5, amended: the text of every body line is the candidate's line with the
\* white space at its two ends removed and nothing else changed (a leading
\* marker stays); the paragraphs added are the candidate's lines in number
\* and order, after the one empty paragraph tf.clear() leaves.
C5_TextTrimmed ==
    \A r \in Reqs :
        \A k \in 2..Len(prs[r]) :
            LET lines == StrSplit(StrSplit(result[r], DELIM)[k - 1], <<NL>>)
            IN  /\ Len(prs[r][k].body) = 1 + Len(lines)
                /\ prs[r][k].body[1].text = <<>>
                /\ \A j \in 1..Len(lines) :
                       BodyLines(prs[r][k])[j].text = Trimmed(lines[j])

\* A candidate of two lines, the first with white space before its marker.
C5_Witness ==
    /\ pc[1] = "done"
    /\ result[1] = <<SP, BULLET, NL, "a">>
    /\ Len(prs[1]) = 2
    /\ BodyLines(prs[1][2])[1].text = <<BULLET>>
    /\ BodyLines(prs[1][2])[2].text = <<"a">>

\* The lines request r has put, in put order.
RECURSIVE LinesOf(_, _)
LinesOf(q, r) ==
    IF q = <<>> THEN <<>>
    ELSE (IF q[1].by = r THEN <<q[1].msg>> ELSE <<>>) \o LinesOf(Tail(q), r)
\* The exception texts generate_content has caught inside request r.
Caught(r) ==
    {toolReturns[r][k].e : k \in {j \in 1..Len(toolReturns[r]) : toolReturns[r][j].failed}}
Introduction == <<"Introduction">>
ErrorPrefix == <<"Error generating content:", SP>>

\* C6 as stated: once the content source has raised, no exception escapes
\* generate_presentation, and the finished deck has exactly one content
\* slide, labeled "Introduction", whose candidate is the formatted error.
C6_ErrorBecomesOneSlide ==
    \A r \in Reqs :
        Caught(r) # {} =>
            /\ pc[r] # "raised"
            /\ pc[r] \in LoopDone =>
                /\ \E e \in Caught(r) : slides_content[r] = <<ErrorPrefix \o e>>
                /\ Len(prs[r]) = 2
                /\ prs[r][2].title = Introduction

\* What generate_content's except branch has done for every error caught:
\* the tool returned "Error generating content: <message>" and that line is
\* on the log.  And when crew.kickoff returned such a string whose message
\* holds no blank line, it is the single candidate, on the one content
\* slide, labeled "Introduction".
C6_Handled ==
    \A r \in Reqs :
        /\ \A k \in 1..Len(toolReturns[r]) :
               toolReturns[r][k].failed =>
                   /\ toolReturns[r][k].out = ErrorPrefix \o toolReturns[r][k].e
                   /\ \E n \in 1..Len(enqueued) :
                          /\ enqueued[n].by = r
                          /\ enqueued[n].msg = ErrorPrefix \o toolReturns[r][k].e
        /\ \A e \in Caught(r) :
               (/\ pc[r] \in LoopDone
                /\ result[r] = ErrorPrefix \o e
                /\ DelimStarts(e) = {}) =>
                   /\ slides_content[r] = <<ErrorPrefix \o e>>
                   /\ Len(prs[r]) = 2
                   /\ prs[r][2].title = Introduction

\* C6, amended: an error of the chat-completion call inside generate_content
\* is caught there: it never takes the thread out of crew.kickoff, the tool
\* returns the formatted error and the error is logged; returned by
\* crew.kickoff, the formatted error becomes one "Introduction" slide when
\* its message holds no blank line.  (An error of crew.kickoff itself is
\* not caught.)
C6_ErrorCaught ==
    /\ []C6_Handled
    /\ [][\A r \in Reqs : pc[r] = "llm" => pc'[r] \in {"llm", "kickoff"}]_vars

\* The error caught, passed through by the agents, and rendered.
C6_Witness ==
    /\ pc[1] = "done"
    /\ Caught(1) = {<<"e">>}
    /\ result[1] = <<"Error generating content:", SP, "e">>
    /\ Len(prs[1]) = 2
    /\ prs[1][2].title = <<"Introduction">>

\* C7: with one viewer, the k-th event emitted is "data: ", the k-th line
\* ever put, and a blank line: every event carries one line already put,
\* in put order, none twice, none skipped, whenever the viewer connected.
C7_EnqueueOrder ==
    /\ Len(emitted[1]) <= Len(enqueued)
    /\ \A k \in 1..Len(emitted[1]) :
           /\ emitted[1][k].n = k
           /\ emitted[1][k].data = <<"data:", SP>> \o enqueued[k].msg \o <<NL, NL>>

\* The viewer came when three lines had been put; it has been sent those and
\* a later one, lines of both requests among them.
C7_Witness ==
    /\ backlog[1] = 3
    /\ Len(emitted[1]) >= 4
    /\ \E j, k \in 1..Len(emitted[1]) :
           enqueued[j].by = 1 /\ enqueued[k].by = 2
    /\ emitted[1][1].data
           = <<"data:", SP, "Generating presentation for agenda:", SP>>
               \o agenda[enqueued[1].by] \o <<NL, NL>>

\* Lines two requests with one candidate each can put.
MaxLines == Cardinality(Reqs) * 4

\* C8: the generator ends only after its client has gone; with the queue
\* empty it is blocked in get and can do nothing; and under fair scheduling
\* a viewer that has connected and stays is in the end sent every line put
\* so far (its events being the lines in put order, every line put while it
\* is connected is among them by then).
C8_NeverEnds ==
    /\ [][vpc[1] # "closed" /\ vpc'[1] = "closed" => ~connected[1]]_vars
    /\ []((vpc[1] = "get" /\ terminal_output = <<>>) =>
              ~ENABLED (StreamGet(1) \/ StreamYield(1) \/ StreamClose(1)))
    /\ (vpc[1] # "idle")
           ~> (~connected[1] \/ Len(emitted[1]) = Len(enqueued))

\* The viewer, still connected, blocked on the empty queue after every line
\* of two finished requests has been emitted.
C8_Witness ==
    /\ vpc[1] = "get"
    /\ connected[1]
    /\ terminal_output = <<>>
    /\ pc[1] = "done" /\ pc[2] = "done"
    /\ Len(emitted[1]) = MaxLines

\* The lines viewer v's generator has taken off the queue: emitted, or got
\* and not yet yielded, or got and dropped when the yield found the client gone.
Received(v) == {emitted[v][k].n : k \in 1..Len(emitted[v])}
Taken(v) ==
    Received(v) \cup (IF vpc[v] \in {"yield", "closed"} THEN {message[v].n} ELSE {})
Queued == {terminal_output[k].n : k \in 1..Len(terminal_output)}

\* C9: with two viewers on the one queue, no line goes to both and none
\* twice to one; the lines the two generators took, with those still queued,
\* are the lines put, each once, so that while both clients are there every
\* line off the queue has been sent to exactly one of them or is about to
\* be; each viewer's events are lines put, in put order.
C9_OneViewerEach ==
    /\ Taken(1) \cap Taken(2) = {}
    /\ (Taken(1) \cup Taken(2)) \cap Queued = {}
    /\ Taken(1) \cup Taken(2) \cup Queued = 1..Len(enqueued)
    /\ (connected[1] /\ connected[2] /\ vpc[1] = "get" /\ vpc[2] = "get") =>
           /\ Received(1) \cup Received(2) = (1..Len(enqueued)) \ Queued
           /\ Cardinality(Received(1)) + Cardinality(Received(2)) + Len(terminal_output)
                  = Len(enqueued)
    /\ \A v \in Viewers :
           /\ \A j, k \in 1..Len(emitted[v]) :
                  j < k => emitted[v][j].n < emitted[v][k].n
           /\ \A k \in 1..Len(emitted[v]) :
                  emitted[v][k].data = Event(enqueued[emitted[v][k].n].msg)

\* Both connected; viewer 2 got the first line and viewer 1 the second, so
\* each has missed a line the other received.
C9_Witness ==
    /\ connected[1] /\ connected[2]
    /\ Len(emitted[1]) >= 1 /\ Len(emitted[2]) >= 1
    /\ emitted[2][1].n = 1
    /\ emitted[1][1].n = 2

\* The lines generate_presentation itself puts for a request with this
\* agenda and this result, to the end.
RECURSIVE ContentLines(_)
ContentLines(m) ==
    IF m = 0 THEN <<>>
    ELSE ContentLines(m - 1) \o << <<"Creating content slide:", SP>> \o slide_types[m] >>
OwnLines(a, res) ==
    << <<"Generating presentation for agenda:", SP>> \o a >>
    \o << <<"Creating title slide">> >>
    \o ContentLines(Min(Len(StrSplit(res, DELIM)), 10))
    \o << <<"Presentation generated successfully">> >>
ToolPrefixes ==
    {"Scraping website:", "Searching for:", "Generating content with OpenAI",
     "Error generating content:"}
\* The lines of q that no tool has put.
RECURSIVE NotOfTools(_)
NotOfTools(q) ==
    IF q = <<>> THEN <<>>
    ELSE (IF q[1][1] \in ToolPrefixes THEN <<>> ELSE <<q[1]>>) \o NotOfTools(Tail(q))
IsPrefix(p, q) == Len(p) <= Len(q) /\ SubSeq(q, 1, Len(p)) = p

\* C10: among all lines on the log, those of one request come in the order
\* "Generating presentation for agenda: <topic>", the tools' lines,
\* "Creating title slide", one "Creating content slide: <label>" per
\* content slide in label order, "Presentation generated successfully";
\* the last is there exactly when the request is done, every slide made,
\* and never for a request that raised.
C10_LogOrder ==
    \A r \in Reqs :
        LET own == NotOfTools(LinesOf(enqueued, r))
            all == LinesOf(enqueued, r)
        IN  /\ pc[r] = "idle" => all = <<>>
            /\ pc[r] # "idle" =>
                   all[1] = <<"Generating presentation for agenda:", SP>> \o agenda[r]
            /\ pc[r] \in {"kickoff", "llm"} =>
                   own = << <<"Generating presentation for agenda:", SP>> \o agenda[r] >>
            /\ pc[r] = "raised" /\ prs[r] = <<>> =>
                   own = << <<"Generating presentation for agenda:", SP>> \o agenda[r] >>
            /\ prs[r] # <<>> =>
                   /\ IsPrefix(own, OwnLines(agenda[r], result[r]))
                   /\ Len(own) = 1 + Len(prs[r]) + (IF pc[r] = "done" THEN 1 ELSE 0)
                   /\ SubSeq(all, Len(all) - Len(own) + 2, Len(all)) = Tail(own)
            /\ pc[r] = "done" =>
                   /\ own = OwnLines(agenda[r], result[r])
                   /\ Len(prs[r]) = 1 + Min(Len(slides_content[r]), 10)
            /\ (\E k \in 1..Len(all) : all[k] = <<"Presentation generated successfully">>)
                   <=> pc[r] = "done"

\* Both requests done, their lines interleaved on the log: request 2 put its
\* first line between two lines of request 1, which called a tool.
C10_Witness ==
    /\ pc[1] = "done" /\ pc[2] = "done"
    /\ toolCalls[1] = 1
    /\ Len(prs[1]) = 3
    /\ \E j \in 2..(Len(enqueued) - 1) :
           /\ enqueued[j].by = 2
           /\ enqueued[j - 1].by = 1
           /\ enqueued[j + 1].by = 1
           /\ enqueued[j + 1].msg = <<"Creating title slide">>
====
